---- MODULE Spec2Model ----
(***************************************************************************)
(* A model of fixmetadata.py: the sidecar-to-media file matcher, the       *)
(* time/geo extractor, the exiftool writer with its clean-and-retry, the   *)
(* directory walker, the logging set-up and main's exit status.            *)
(*                                                                         *)
(* File names are sequences of atoms.  The atoms ".", "*", "?", "[" and    *)
(* "]" are the characters of that name; every other atom ("trip", "jpg",   *)
(* "json", ...) stands for a run of ordinary characters that holds none of *)
(* those five.  Text (JSON strings, formatted dates) is a sequence of      *)
(* one-character strings.                                                  *)
(***************************************************************************)
EXTENDS Integers, Sequences, FiniteSets, TLC

VARIABLES
  pc,               \* where the program (or the function under study) stands
  m_json,           \* smart_file_matcher: the sidecar's file name
  m_listing,        \* smart_file_matcher: the names in the directory
  m_result,         \* smart_file_matcher: the value returned
  t_doc,            \* enhanced_parse_time: the sidecar document
  local_tz,         \* the local zone's offset from UTC, in seconds
  t_result,         \* enhanced_parse_time: [value, log] returned
  argv_ok,          \* main: "-d" was given on the command line
  is_dir,           \* main: os.path.isdir(target_dir)
  tree,             \* the files under the target: records [dir, name]
  content,          \* the document of each sidecar file of tree
  todo,             \* the files os.walk has still to yield
  failure_list,     \* process_directory: <<path, reason>> entries
  processed_count,  \* process_directory: the success counter
  cur,              \* the writer's call in progress: [json, media, cmd]
  first_error,      \* robust_exiftool_exec: the first write's stderr
  calls,            \* the subprocess invocations of the latest writer call
  last_ret,         \* the latest return of robust_exiftool_exec, and the
                    \* place of its error in failure_list (0 on success)
  handled,          \* the sidecars visited so far, each with its outcome
  logs,             \* the log file, the console, stderr and what was emitted
  report,           \* the FAILURES_ file: its entries, or None
  exit_code,        \* the process exit status, -1 while running
  escaped           \* an exception left robust_exiftool_exec

vars ==
  <<pc, m_json, m_listing, m_result, t_doc, local_tz, t_result, argv_ok, is_dir,
    tree, content, todo, failure_list, processed_count, cur, first_error,
    calls, last_ret, handled, logs, report, exit_code, escaped>>

\* Python's None, where the value it stands in for is a sequence: no name,
\* time string, coordinate pair or report is empty.
None == <<>>

\* ------------------------------------------------------------------------
\* Names, os.path.splitext, str.lower, str.endswith
\* ------------------------------------------------------------------------

Dot == "."

\* str.lower() on one atom: the upper-case atoms of the model and their
\* lower-case forms.
LowerAtom(a) ==
  CASE a = "JSON" -> "json"
    [] a = "JPG" -> "jpg"
    [] a = "MP4" -> "mp4"
    [] OTHER -> a

Lower(name) == [i \in 1..Len(name) |-> LowerAtom(name[i])]

EndsWith(name, suffix) ==
  /\ Len(name) >= Len(suffix)
  /\ SubSeq(name, Len(name) - Len(suffix) + 1, Len(name)) = suffix

DotIndexes(name) == {i \in 1..Len(name) : name[i] = Dot}

Max(S) == CHOOSE x \in S : \A y \in S : y <= x

\* os.path.splitext(p)[1]: from the last dot on, unless the name has no dot
\* or only dots precede it (a leading-dot name has no extension).
SplitExt(name) ==
  IF DotIndexes(name) = {} THEN <<>>
  ELSE LET i == Max(DotIndexes(name)) IN
       IF \A k \in 1..(i - 1) : name[k] = Dot THEN <<>>
       ELSE SubSeq(name, i, Len(name))

\* ------------------------------------------------------------------------
\* glob.escape, glob.has_magic, fnmatch, glob.glob in one directory
\* ------------------------------------------------------------------------

MagicChars == {"*", "?", "["}

\* The atoms that are one character long: what "?" and a class can match.
OneChar == {".", "*", "?", "[", "]", "x", "y"}

RECURSIVE GlobEscape(_)
GlobEscape(p) ==
  IF p = <<>> THEN <<>>
  ELSE (IF Head(p) \in MagicChars THEN <<"[", Head(p), "]">> ELSE <<Head(p)>>)
       \o GlobEscape(Tail(p))

HasMagic(p) == \E i \in 1..Len(p) : p[i] \in MagicChars

\* fnmatch.translate's scan for the "]" that closes the class opened at
\* p[1] = "[": a "]" right after the "[" is a member, not the end.  0 when no
\* "]" closes it (the "[" is then a literal).
ClassEnd(p) ==
  LET from == IF Len(p) >= 2 /\ p[2] = "]" THEN 3 ELSE 2
      ends == {j \in from..Len(p) : p[j] = "]"}
  IN IF ends = {} THEN 0 ELSE CHOOSE j \in ends : \A k \in ends : j <= k

RECURSIVE FnMatch(_, _)
FnMatch(p, s) ==
  IF p = <<>> THEN s = <<>>
  ELSE LET h == Head(p) IN
    CASE h = "*" -> FnMatch(Tail(p), s) \/ (s # <<>> /\ FnMatch(p, Tail(s)))
      [] h = "?" -> s # <<>> /\ Head(s) \in OneChar /\ FnMatch(Tail(p), Tail(s))
      [] h = "[" ->
           LET j == ClassEnd(p) IN
           IF j = 0
           THEN s # <<>> /\ Head(s) = "[" /\ FnMatch(Tail(p), Tail(s))
           ELSE /\ s # <<>>
                /\ Head(s) \in {p[k] : k \in 2..(j - 1)}
                /\ FnMatch(SubSeq(p, j + 1, Len(p)), Tail(s))
      [] OTHER -> s # <<>> /\ Head(s) = h /\ FnMatch(Tail(p), Tail(s))

IsHidden(name) == name # <<>> /\ name[1] = Dot

\* glob.glob(os.path.join(directory, pattern)) as the set of base names it
\* yields (in the directory's listing order, which is unspecified).  Without
\* magic the path is tested for existence; the empty pattern names the
\* directory itself.  With magic the listing is filtered by fnmatch, hidden
\* names left out unless the pattern starts with a dot.  The directory's own
\* name holds no magic character.
Glob(listing, p) ==
  IF ~HasMagic(p)
  THEN IF p = <<>> THEN {<<>>} ELSE {p} \cap listing
  ELSE {n \in listing : (IsHidden(p) \/ ~IsHidden(n)) /\ FnMatch(p, n)}

\* ------------------------------------------------------------------------
\* smart_file_matcher
\* ------------------------------------------------------------------------

valid_exts == {<<Dot, e>> : e \in {"jpg", "jpeg", "png", "gif", "mp4", "mov", "heic", "webp"}}

\* re.match(r'^(.*)\.[^.]+\.[^.]+\.json$', json_name, re.IGNORECASE): the
\* name ends in ".json" and the two segments before it, between the last
\* three dots, are not empty.  Below: the indexes of those three dots.
LastDots(name) ==
  LET d == DotIndexes(name)
      d3 == Max(d)
      d2 == Max(d \ {d3})
      d1 == Max(d \ {d3, d2})
  IN <<d1, d2, d3>>

base_pattern(json_name) ==
  /\ Cardinality(DotIndexes(json_name)) >= 3
  /\ LET d == LastDots(json_name) IN
       /\ d[3] = Len(json_name) - 1
       /\ LowerAtom(json_name[Len(json_name)]) = "json"
       /\ d[3] - d[2] >= 2
       /\ d[2] - d[1] >= 2

core_name(json_name) == SubSeq(json_name, 1, LastDots(json_name)[1] - 1)

\* core_name.split('.')[0]
FirstSegment(core) ==
  IF DotIndexes(core) = {} THEN core
  ELSE SubSeq(core, 1, (CHOOSE i \in DotIndexes(core) : \A k \in DotIndexes(core) : i <= k) - 1)

patterns(core) == << core, core \o <<Dot, "*">>, FirstSegment(core) \o <<"*">> >>

\* The candidates of one pattern that pass the extension test.
ValidHits(listing, globbed) ==
  {c \in Glob(listing, globbed) :
     /\ Lower(SplitExt(c)) \in valid_exts
     /\ ~EndsWith(Lower(c), <<Dot, "json">>)}

\* The first pattern, in order, with a valid hit decides; the result is any
\* of its valid hits, or None when no pattern has one.
FirstValid(listing, pats) ==
  LET hit == {i \in 1..Len(pats) : ValidHits(listing, pats[i]) # {}}
  IN IF hit = {} THEN {None}
     ELSE ValidHits(listing, pats[CHOOSE i \in hit : \A k \in hit : i <= k])

\* The patterns as handed to glob.glob: each one escaped first.
EscapedPatterns(core) == [i \in 1..3 |-> GlobEscape(patterns(core)[i])]

\* smart_file_matcher(json_name, directory): the set of values it can return.
smart_file_matcher(json_name, listing) ==
  IF ~base_pattern(json_name) THEN {None}
  ELSE FirstValid(listing, EscapedPatterns(core_name(json_name)))

\* Whether the matcher logs its "non-standard name" warning.
MatcherWarns(json_name) == ~base_pattern(json_name)

\* ------------------------------------------------------------------------
\* Text, int(), str.isdigit(), datetime
\* ------------------------------------------------------------------------

DigitChars == <<"0", "1", "2", "3", "4", "5", "6", "7", "8", "9">>

IsDigitChar(c) == \E d \in 1..10 : DigitChars[d] = c

DigitVal(c) == (CHOOSE d \in 1..10 : DigitChars[d] = c) - 1

\* value.isdigit(): not empty, every character a digit.
IsDigit(text) == text # <<>> /\ \A i \in 1..Len(text) : IsDigitChar(text[i])

\* int(value) of a digit-only text.
RECURSIVE ToInt(_)
ToInt(text) ==
  IF text = <<>> THEN 0
  ELSE (10 * ToInt(SubSeq(text, 1, Len(text) - 1))) + DigitVal(text[Len(text)])

IsLeap(y) == ((y % 4) = 0 /\ (y % 100) # 0) \/ (y % 400) = 0

DaysInMonth(y, m) ==
  CASE m \in {4, 6, 9, 11} -> 30
    [] m = 2 -> IF IsLeap(y) THEN 29 ELSE 28
    [] OTHER -> 31

\* Days from 1970-01-01 to the civil date y-m-d (proleptic Gregorian).
DaysFromCivil(y, m, d) ==
  LET yy == IF m <= 2 THEN y - 1 ELSE y
      era == yy \div 400
      yoe == yy - (era * 400)
      mp == (m + 9) % 12
      doy == (((153 * mp) + 2) \div 5) + d - 1
      doe == (yoe * 365) + (yoe \div 4) - (yoe \div 100) + doy
  IN (era * 146097) + doe - 719468

\* The civil date of a day count from 1970-01-01.
CivilFromDays(z0) ==
  LET z == z0 + 719468
      era == z \div 146097
      doe == z - (era * 146097)
      yoe == (doe - (doe \div 1460) + (doe \div 36524) - (doe \div 146096)) \div 365
      doy == doe - ((365 * yoe) + (yoe \div 4) - (yoe \div 100))
      mp == ((5 * doy) + 2) \div 153
      d == doy - (((153 * mp) + 2) \div 5) + 1
      m == IF mp < 10 THEN mp + 3 ELSE mp - 9
      y == yoe + (era * 400) + (IF m <= 2 THEN 1 ELSE 0)
  IN <<y, m, d>>

\* A datetime is held as its count of seconds from 1970-01-01 00:00:00 on
\* its own clock; its fields are read off when it is formatted.
Fields(secs) ==
  LET days == secs \div 86400
      rem == secs % 86400
  IN CivilFromDays(days) \o <<rem \div 3600, (rem % 3600) \div 60, rem % 60>>

\* The seconds count of the fields <<Y, M, D, h, m, s>>.
SecsOfFields(f) ==
  (DaysFromCivil(f[1], f[2], f[3]) * 86400) + (f[4] * 3600) + (f[5] * 60) + f[6]

\* datetime's range: years 1 to 9999.
InDatetimeRange(secs) == (secs \div 86400) >= -719162 /\ (secs \div 86400) <= 2932896

Pad2(n) == <<DigitChars[(n \div 10) + 1], DigitChars[(n % 10) + 1]>>

Pad4(n) == Pad2(n \div 100) \o Pad2(n % 100)

\* dt.strftime("%Y:%m:%d %H:%M:%S")
Strftime(secs) ==
  LET f == Fields(secs) IN
  Pad4(f[1]) \o <<":">> \o Pad2(f[2]) \o <<":">> \o Pad2(f[3]) \o <<" ">>
    \o Pad2(f[4]) \o <<":">> \o Pad2(f[5]) \o <<":">> \o Pad2(f[6])

\* The positions of the characters of text that are not digits, in order.
RECURSIVE SepPositions(_, _)
SepPositions(text, i) ==
  IF i > Len(text) THEN <<>>
  ELSE (IF IsDigitChar(text[i]) THEN <<>> ELSE <<i>>) \o SepPositions(text, i + 1)

\* The six digit runs that the five separators of text delimit.
DateFields(text) ==
  LET p == <<0>> \o SepPositions(text, 1) \o <<Len(text) + 1>>
  IN [k \in 1..6 |-> SubSeq(text, p[k] + 1, p[k + 1] - 1)]

\* datetime.strptime(value, "%Y:%m:%d %H:%M:%S") succeeds: a four-digit
\* year, the other fields of one or two digits and in range (a month or a
\* day is never "0" or "00"), the day within its month, the separators
\* ":" ":" " " ":" ":" in this order.
StrptimeOk(text) ==
  LET p == SepPositions(text, 1) IN
  /\ Len(p) = 5
  /\ [k \in 1..5 |-> text[p[k]]] = <<":", ":", " ", ":", ":">>
  /\ LET f == DateFields(text)
         n == [k \in 1..6 |-> ToInt(f[k])]
     IN /\ Len(f[1]) = 4
        /\ \A k \in 2..6 : Len(f[k]) \in {1, 2}
        /\ n[1] >= 1
        /\ n[2] \in 1..12
        /\ n[3] >= 1 /\ n[3] <= DaysInMonth(n[1], n[2])
        /\ n[4] \in 0..23
        /\ n[5] \in 0..59
        /\ n[6] \in 0..59

\* The naive datetime strptime returns, as its seconds count.
Strptime(text) == SecsOfFields([k \in 1..6 |-> ToInt(DateFields(text)[k])])

\* dt.timestamp() of a naive datetime: its fields are read as local time;
\* tz is the local zone's offset from UTC in seconds.
LocalTimestamp(secs, tz) == secs - tz

\* ------------------------------------------------------------------------
\* The sidecar document and the extractor
\* ------------------------------------------------------------------------
\* A JSON value is [k, v]: k its kind ("absent": the key is missing; "null";
\* "num": the integer v; "str": the text v; "list": a non-empty list).  A
\* time object is [k, timestamp, formatted] with k "absent", "null" (any
\* value that is no object) or "dict".  A document that json.load cannot
\* read has readable = FALSE.

Absent == [k |-> "absent", v |-> <<>>]
Num(n) == [k |-> "num", v |-> n]
Str(t) == [k |-> "str", v |-> t]
AList == [k |-> "list", v |-> <<>>]

\* Python truthiness of a looked-up value (a missing key gives None).
Truthy(val) ==
  CASE val.k = "absent" -> FALSE
    [] val.k = "null" -> FALSE
    [] val.k = "num" -> val.v # 0
    [] val.k = "str" -> val.v # <<>>
    [] OTHER -> TRUE

time_sources ==
  << <<"photoTakenTime", "timestamp">>, <<"creationTime", "timestamp">>,
     <<"photoTakenTime", "formatted">>, <<"creationTime", "formatted">> >>

\* data.get(main_key, {}): the object under the key; a missing key gives {}.
MainObject(doc, main_key) ==
  IF main_key = "photoTakenTime" THEN doc.photoTakenTime ELSE doc.creationTime

\* .get(sub_key) on that object (which is a dict or the default {}).
SubValue(obj, sub_key) ==
  IF obj.k = "absent" THEN Absent
  ELSE IF sub_key = "timestamp" THEN obj.timestamp ELSE obj.formatted

\* The body of the try of one candidate: <<TRUE, timestamp>> where the loop
\* breaks, <<FALSE, 0>> where ValueError or TypeError makes it continue.
ParseCandidate(val, tz) ==
  CASE val.k = "num" -> <<TRUE, val.v>>
    [] val.k = "str" /\ IsDigit(val.v) -> <<TRUE, ToInt(val.v)>>
    [] val.k = "str" /\ StrptimeOk(val.v) -> <<TRUE, LocalTimestamp(Strptime(val.v), tz)>>
    [] OTHER -> <<FALSE, 0>>

\* The for loop from candidate i on.  [raised, found, ts]: raised when
\* .get is called on a value that is no object (AttributeError, which the
\* inner except does not catch); found when a candidate broke the loop.
RECURSIVE ScanSources(_, _, _)
ScanSources(doc, tz, i) ==
  IF i > Len(time_sources) THEN [raised |-> FALSE, found |-> FALSE, ts |-> 0]
  ELSE LET obj == MainObject(doc, time_sources[i][1]) IN
    IF obj.k = "null" THEN [raised |-> TRUE, found |-> FALSE, ts |-> 0]
    ELSE LET val == SubValue(obj, time_sources[i][2]) IN
      IF Truthy(val) /\ ParseCandidate(val, tz)[1]
      THEN [raised |-> FALSE, found |-> TRUE, ts |-> ParseCandidate(val, tz)[2]]
      ELSE ScanSources(doc, tz, i + 1)

\* "if not timestamp": None and 0 are both falsy.
NotTimestamp(scan) == ~scan.found \/ scan.ts = 0

\* "UTC to Beijing time": hours added to the UTC datetime.
BeijingOffsetHours == 8

\* enhanced_parse_time(json_path): [value, log]; value the formatted time or
\* None, log the message it sends to the logging module ("none" for none).
enhanced_parse_time(doc, tz) ==
  IF ~doc.readable THEN [value |-> None, log |-> "error_time_parse"]
  ELSE LET scan == ScanSources(doc, tz, 1) IN
    IF scan.raised THEN [value |-> None, log |-> "error_time_parse"]
    ELSE IF NotTimestamp(scan) THEN [value |-> None, log |-> "warning_no_time_source"]
    ELSE IF ~InDatetimeRange(scan.ts) \/ ~InDatetimeRange(scan.ts + (BeijingOffsetHours * 3600))
         THEN [value |-> None, log |-> "error_time_parse"]
    ELSE [value |-> Strftime(scan.ts + (BeijingOffsetHours * 3600)), log |-> "none"]

\* A coordinate is [k, v]: "absent", "num" (v in millionths of a degree) or
\* "bad" (a value float() rejects).  geoData is [k, latitude, longitude]
\* with k "absent", "null" or "dict".
GeoNum(n) == [k |-> "num", v |-> n]
GeoAbsent == [k |-> "absent", v |-> 0]
GeoBad == [k |-> "bad", v |-> 0]

\* float(geo.get(key, 0.0)) where it does not raise.
GeoFloat(c) == IF c.k = "num" THEN c.v ELSE 0

Abs(n) == IF n < 0 THEN -n ELSE n

\* safe_geo_parse(json_path): [value, log]; value <<lat, lon>> or None.
\* 1e-6 degrees is 1 in millionths of a degree.
safe_geo_parse(doc) ==
  IF ~doc.readable \/ doc.geoData.k = "null" THEN [value |-> None, log |-> "warning_geo_parse"]
  ELSE LET lat == IF doc.geoData.k = "absent" THEN GeoAbsent ELSE doc.geoData.latitude
           lon == IF doc.geoData.k = "absent" THEN GeoAbsent ELSE doc.geoData.longitude
    IN IF lat.k = "bad" \/ lon.k = "bad" THEN [value |-> None, log |-> "warning_geo_parse"]
       ELSE IF Abs(GeoFloat(lat)) < 1 /\ Abs(GeoFloat(lon)) < 1
            THEN [value |-> None, log |-> "none"]
       ELSE IF ~(-90000000 <= GeoFloat(lat) /\ GeoFloat(lat) <= 90000000)
               \/ ~(-180000000 <= GeoFloat(lon) /\ GeoFloat(lon) <= 180000000)
            THEN [value |-> None, log |-> "warning_invalid_coordinate"]
       ELSE [value |-> <<GeoFloat(lat), GeoFloat(lon)>>, log |-> "none"]

\* build_geo_params(lat, lon, ext).  A command-line argument is <<text, value>>:
\* the argument's fixed text and the value formatted into it, a sequence.
build_geo_params(lat, lon, ext) ==
  << <<"-XMP:GPSLatitude=", <<Abs(lat)>> >>, <<"-XMP:GPSLongitude=", <<Abs(lon)>> >> >>
  \o (IF Lower(ext) # <<Dot, "gif">>
      THEN << <<"-GPSLatitude=", <<Abs(lat)>> >>,
              <<"-GPSLatitudeRef=", IF lat >= 0 THEN <<"N">> ELSE <<"S">> >>,
              <<"-GPSLongitude=", <<Abs(lon)>> >>,
              <<"-GPSLongitudeRef=", IF lon >= 0 THEN <<"E">> ELSE <<"W">> >> >>
      ELSE <<>>)

\* ------------------------------------------------------------------------
\* setup_logger and the logging module
\* ------------------------------------------------------------------------
\* logs = [file, console, stderr, root_configured, emitted].  file is the
\* run log of setup_logger's FileHandler, console its StreamHandler, stderr
\* the handler logging.basicConfig() gives the root logger, emitted every
\* message sent so far.  A message is [level, text, path, detail].

LevelNo(level) ==
  CASE level = "DEBUG" -> 10
    [] level = "INFO" -> 20
    [] level = "WARNING" -> 30
    [] OTHER -> 40

NoFile == [dir |-> "", name |-> <<>>]
NoDetail == <<"", 0>>

Message(level, text, path, detail) ==
  [level |-> level, text |-> text, path |-> path, detail |-> detail]

\* setup_logger(): logger 'GooglePhotoRepair' at DEBUG with a file handler
\* at DEBUG and a console handler at INFO; the root logger is left without
\* a handler.
setup_logger ==
  [file |-> <<>>, console |-> <<>>, stderr |-> <<>>, root_configured |-> FALSE,
   emitted |-> <<>>]

\* logger.<level>(...) on the logger setup_logger returns: to its two
\* handlers by level, then up to the root logger's handlers, if any.
LoggerLog(L, level, text, path, detail) ==
  LET msg == Message(level, text, path, detail) IN
  [L EXCEPT
     !.file = IF LevelNo(level) >= LevelNo("DEBUG") THEN Append(@, msg) ELSE @,
     !.console = IF LevelNo(level) >= LevelNo("INFO") THEN Append(@, msg) ELSE @,
     !.stderr = IF L.root_configured THEN Append(@, msg) ELSE @,
     !.emitted = Append(@, msg)]

\* logging.warning(...) / logging.error(...): the module-level functions
\* log on the root logger, after basicConfig() has given it a stderr
\* handler if it had none.
RootLog(L, level, text, path) ==
  LET msg == Message(level, text, path, NoDetail) IN
  [L EXCEPT
     !.root_configured = TRUE,
     !.stderr = IF LevelNo(level) >= LevelNo("WARNING") THEN Append(@, msg) ELSE @,
     !.emitted = Append(@, msg)]

\* The message an extractor or the matcher reports, if any.
RootLogIf(L, log, path) ==
  CASE log = "none" -> L
    [] log = "error_time_parse" -> RootLog(L, "ERROR", log, path)
    [] OTHER -> RootLog(L, "WARNING", log, path)

\* ------------------------------------------------------------------------
\* The directory tree and the sidecar documents of a run
\* ------------------------------------------------------------------------

File(d, n) == [dir |-> d, name |-> n]

\* The most files in the tree.
MaxFiles == 3

\* The number of distinct error texts exiftool can print.
NumStderr == 2

TreeUniverse ==
  { File("root", <<"a", Dot, "jpg">>),
    File("root", <<"a", Dot, "jpg", Dot, "x", Dot, "y", Dot, "json">>),
    File("root", <<"a", Dot, "jpg", Dot, "y", Dot, "x", Dot, "JSON">>),
    File("root", <<"w", Dot, "json">>),
    File("sub", <<"a", Dot, "jpg", Dot, "x", Dot, "y", Dot, "json">>) }

EmptyTime == [k |-> "absent", timestamp |-> Absent, formatted |-> Absent]
EmptyGeo == [k |-> "absent", latitude |-> GeoAbsent, longitude |-> GeoAbsent]

Chars1600000000 == <<"1", "6", "0", "0", "0", "0", "0", "0", "0", "0">>

\* A sidecar with a time and a place; one json.load rejects (neither time
\* nor place); one with a place only (south, west) and no time.
RunDocs ==
  { [readable |-> TRUE,
     photoTakenTime |-> [k |-> "dict", timestamp |-> Str(Chars1600000000), formatted |-> Absent],
     creationTime |-> EmptyTime,
     geoData |-> [k |-> "dict", latitude |-> GeoNum(31000000), longitude |-> GeoNum(121000000)]],
    [readable |-> FALSE, photoTakenTime |-> EmptyTime, creationTime |-> EmptyTime,
     geoData |-> EmptyGeo],
    [readable |-> TRUE, photoTakenTime |-> EmptyTime, creationTime |-> EmptyTime,
     geoData |-> [k |-> "dict", latitude |-> GeoNum(-33000000), longitude |-> GeoNum(-70000000)]] }

\* file.lower().endswith('.json')
IsSidecar(f) == EndsWith(Lower(f.name), <<Dot, "json">>)

Sidecars(t) == {f \in t : IsSidecar(f)}

\* The names os.listdir gives for a directory of the tree: its files and,
\* for the root, the sub-directory if there is one.
Listing(t, d) ==
  {f.name : f \in {g \in t : g.dir = d}}
  \cup (IF d = "root" /\ \E g \in t : g.dir = "sub" THEN {<<"sub">>} ELSE {})

\* os.path.join(directory, name) as one argument of a command line.
PathArg(f) == <<f.dir, "/">> \o f.name

\* ------------------------------------------------------------------------
\* robust_exiftool_exec
\* ------------------------------------------------------------------------

Arg(text) == <<text, <<>> >>

\* What one subprocess.run can do: raise (the tool cannot be started), exit
\* 0, or exit non-zero with one of the error texts on stderr.
Outcomes ==
  {[raised |-> TRUE, rc |-> 0, stderr |-> 0], [raised |-> FALSE, rc |-> 0, stderr |-> 0]}
  \cup {[raised |-> FALSE, rc |-> 1, stderr |-> n] : n \in 1..NumStderr}

Invocation(kind, argv, o) ==
  [kind |-> kind, argv |-> argv, raised |-> o.raised, rc |-> o.rc, stderr |-> o.stderr]

\* cmd.insert(1, '-m')
InsertM(cmd) == <<cmd[1], Arg("-m")>> \o Tail(cmd)

clean_cmd(file_path) ==
  <<Arg("exiftool"), Arg("-m"), Arg("-overwrite_original"), Arg("-all="),
    <<"path", PathArg(file_path)>> >>

\* if result.returncode == 0: the first write succeeded.
FirstWriteSucceeded(rc) == rc = 0

\* "if clean_result.returncode != 0" with the test lost: the retry is made
\* whatever the strip's exit status.
CleanFailedNever(rc) == FALSE

\* if clean_result.returncode != 0: the strip failed, no retry.
CleanFailed(rc) == rc # 0

\* error_msg = f"清空元数据失败: {clean_result.stderr.strip()}"
CleanErrorMsg(o) == <<"clean_failed", o.stderr>>

\* The retry's failure message built from first_error instead of the
\* retry's stderr.
FinalErrorMsgFromFirst(o) == <<"final_failed", first_error>>

\* error_msg = f"最终失败: {retry_result.stderr.strip()}"
FinalErrorMsg(o) == <<"final_failed", o.stderr>>

\* error_msg = f"意外错误: {str(e)}"
UnexpectedErrorMsg(o) == <<"unexpected_error", o.stderr>>

NoError == <<"", 0>>

\* ------------------------------------------------------------------------
\* generate_failure_log and main's exit status
\* ------------------------------------------------------------------------

NoReport == [written |-> FALSE, entries |-> <<>>]

\* generate_failure_log(failures, log_path): the FAILURES_ file it leaves.
generate_failure_log(failures) ==
  IF failures = <<>> THEN NoReport ELSE [written |-> TRUE, entries |-> failures]

\* sys.exit(101)
ExitWithFailures == 101

\* main's exit status after the walk with the failure branch lost.
ExitStatusAlwaysZero(failed_files) == 0

\* if failed_files: ... sys.exit(101) else: ... sys.exit(0)
ExitStatus(failed_files) == IF failed_files # <<>> THEN ExitWithFailures ELSE 0

\* ------------------------------------------------------------------------
\* The run: main, process_directory, robust_exiftool_exec step by step
\* ------------------------------------------------------------------------

IdleDoc ==
  [readable |-> TRUE, photoTakenTime |-> EmptyTime, creationTime |-> EmptyTime,
   geoData |-> EmptyGeo]

NoCall == [json |-> NoFile, media |-> NoFile, cmd |-> <<>>]
NoReturn == [returned |-> FALSE, success |-> FALSE, error |-> NoError, slot |-> 0]

\* The variables of the functions studied on their own, at rest.
FunctionsIdle ==
  /\ m_json = <<>>
  /\ m_listing = {}
  /\ m_result = None
  /\ t_doc = IdleDoc
  /\ t_result = [value |-> None, log |-> "none"]

\* The variables of a run, before it starts.
RunFresh ==
  /\ failure_list = <<>>
  /\ processed_count = 0
  /\ cur = NoCall
  /\ first_error = 0
  /\ calls = <<>>
  /\ last_ret = NoReturn
  /\ handled = <<>>
  /\ logs = setup_logger
  /\ report = NoReport
  /\ exit_code = -1
  /\ escaped = FALSE

\* A run starts on any command line and any tree of at most MaxFiles files,
\* each sidecar holding any of the documents.  Without "-d", or with a
\* target that is no directory, there is no tree.
Init ==
  /\ pc = "start"
  /\ FunctionsIdle
  /\ local_tz = 0
  /\ argv_ok \in BOOLEAN
  /\ is_dir \in (IF argv_ok THEN BOOLEAN ELSE {FALSE})
  /\ tree \in (IF is_dir
               THEN {t \in SUBSET TreeUniverse : Cardinality(t) <= MaxFiles}
               ELSE {{}})
  /\ content \in [Sidecars(tree) -> RunDocs]
  /\ todo = tree
  /\ RunFresh

walker_vars == <<failure_list, processed_count, cur, first_error, calls, last_ret, handled>>
input_vars == <<m_json, m_listing, m_result, t_doc, local_tz, t_result, argv_ok, is_dir, tree, content>>

\* main up to the call of process_directory: setup_logger has run (Init),
\* parse_args exits 2 without "-d", a target that is no directory is
\* logged and exits 1.
MainStart ==
  /\ pc = "start"
  /\ IF ~argv_ok
     THEN /\ exit_code' = 2
          /\ pc' = "exited"
          /\ logs' = logs
     ELSE IF ~is_dir
     THEN /\ logs' = LoggerLog(logs, "ERROR", "invalid_directory", NoFile, NoDetail)
          /\ exit_code' = 1
          /\ pc' = "exited"
     ELSE /\ logs' = LoggerLog(LoggerLog(logs, "INFO", "rule", NoFile, NoDetail),
                               "INFO", "start_directory", NoFile, NoDetail)
          /\ exit_code' = exit_code
          /\ pc' = "walk"
  /\ UNCHANGED <<input_vars, todo, walker_vars, report, escaped>>

\* os.walk yields the root's files before the sub-directory's, each
\* directory's files in an unspecified order.
Eligible(f) ==
  /\ f \in todo
  /\ f.dir = "root" \/ ~\E g \in todo : g.dir = "root"

\* "if not file.lower().endswith('.json'): continue"
SkipFile(f) ==
  /\ pc = "walk"
  /\ Eligible(f)
  /\ ~IsSidecar(f)
  /\ todo' = todo \ {f}
  /\ UNCHANGED <<pc, input_vars, walker_vars, logs, report, exit_code, escaped>>

\* The media files smart_file_matcher(file, root) can return, as paths.
MatchOf(f) ==
  {IF n = None THEN NoFile ELSE File(f.dir, n) :
     n \in smart_file_matcher(f.name, Listing(tree, f.dir))}

\* The logs after the matcher has run on f.
AfterMatcher(f) ==
  IF MatcherWarns(f.name)
  THEN RootLog(logs, "WARNING", "warning_non_standard_name", File("", f.name))
  ELSE logs

\* The logs after both extractors have run on f, the matcher before them.
AfterExtractors(f) ==
  RootLogIf(RootLogIf(AfterMatcher(f), enhanced_parse_time(content[f], local_tz).log, f),
            safe_geo_parse(content[f]).log, f)

Outcome(f, media, what) == [json |-> f, media |-> media, outcome |-> what]

\* A sidecar without a media file: one failure, keyed to the sidecar.
VisitUnmatched(f) ==
  /\ pc = "walk"
  /\ Eligible(f)
  /\ IsSidecar(f)
  /\ NoFile \in MatchOf(f)
  /\ logs' = LoggerLog(AfterMatcher(f), "WARNING", "media_not_found", f, NoDetail)
  /\ failure_list' = Append(failure_list, <<f, <<"media_not_found", 0>> >>)
  /\ handled' = Append(handled, Outcome(f, NoFile, "not_found"))
  /\ todo' = todo \ {f}
  /\ UNCHANGED <<pc, input_vars, processed_count, cur, first_error, calls, last_ret,
                 report, exit_code, escaped>>

\* A sidecar with a media file and neither time nor place: one failure,
\* keyed to the media file.
VisitNoMetadata(f) ==
  /\ pc = "walk"
  /\ Eligible(f)
  /\ IsSidecar(f)
  /\ \E media \in MatchOf(f) :
       /\ media # NoFile
       /\ enhanced_parse_time(content[f], local_tz).value = None
       /\ safe_geo_parse(content[f]).value = None
       /\ logs' = LoggerLog(AfterExtractors(f), "WARNING", "no_valid_metadata", f, NoDetail)
       /\ failure_list' = Append(failure_list, <<media, <<"no_valid_metadata", 0>> >>)
       /\ handled' = Append(handled, Outcome(f, media, "no_metadata"))
  /\ todo' = todo \ {f}
  /\ UNCHANGED <<pc, input_vars, processed_count, cur, first_error, calls, last_ret,
                 report, exit_code, escaped>>

\* exif_cmd as process_directory builds it.
exif_cmd(time_data, geo_data, media) ==
  <<Arg("exiftool"), Arg("-overwrite_original"), Arg("-charset"), Arg("filename=utf8")>>
  \o (IF time_data # None
      THEN << <<"-AllDates=", time_data>>, <<"-FileCreateDate=", time_data>>,
              <<"-FileModifyDate=", time_data>> >>
      ELSE <<>>)
  \o (IF geo_data # None
      THEN build_geo_params(geo_data[1], geo_data[2], SplitExt(media.name))
      ELSE <<>>)
  \o << <<"path", PathArg(media)>> >>

\* A sidecar with a media file and a time or a place: the command is built
\* and robust_exiftool_exec entered, "-m" inserted.
VisitWrite(f) ==
  /\ pc = "walk"
  /\ Eligible(f)
  /\ IsSidecar(f)
  /\ \E media \in MatchOf(f) :
       LET time_data == enhanced_parse_time(content[f], local_tz).value
           geo_data == safe_geo_parse(content[f]).value
       IN /\ media # NoFile
          /\ time_data # None \/ geo_data # None
          /\ logs' = AfterExtractors(f)
          /\ cur' = [json |-> f, media |-> media,
                      cmd |-> InsertM(exif_cmd(time_data, geo_data, media))]
          /\ handled' = Append(handled, Outcome(f, media, "writer"))
  /\ calls' = <<>>
  /\ last_ret' = NoReturn
  /\ todo' = todo \ {f}
  /\ pc' = "first"
  /\ UNCHANGED <<input_vars, failure_list, processed_count, first_error, report,
                 exit_code, escaped>>

\* robust_exiftool_exec returns to process_directory, which records the
\* failure or counts the success.
Return(success, error) ==
  /\ last_ret' = [returned |-> TRUE, success |-> success, error |-> error,
                   slot |-> IF success THEN 0 ELSE Len(failure_list) + 1]
  /\ failure_list' = IF ~success THEN Append(failure_list, <<cur.media, error>>)
                      ELSE failure_list
  /\ processed_count' = IF success THEN processed_count + 1 ELSE processed_count
  /\ pc' = "walk"

\* The first write.  It runs outside the try: an exception leaves
\* robust_exiftool_exec and process_directory, and main's handler logs it
\* and exits 1.
FirstWrite ==
  /\ pc = "first"
  /\ \E o \in Outcomes :
       /\ calls' = Append(calls, Invocation("write", cur.cmd, o))
       /\ IF o.raised
          THEN /\ escaped' = TRUE
               /\ logs' = LoggerLog(logs, "ERROR", "unhandled_exception", NoFile, NoDetail)
               /\ exit_code' = 1
               /\ pc' = "exited"
               /\ UNCHANGED <<failure_list, processed_count, last_ret, first_error>>
          ELSE IF FirstWriteSucceeded(o.rc)
          THEN /\ logs' = LoggerLog(logs, "INFO", "updated", cur.media, NoDetail)
               /\ Return(TRUE, NoError)
               /\ UNCHANGED <<first_error, exit_code, escaped>>
          ELSE /\ first_error' = o.stderr
               /\ logs' = LoggerLog(logs, "WARNING", "first_failed", cur.media,
                                     <<"stderr", o.stderr>>)
               /\ pc' = "strip"
               /\ UNCHANGED <<failure_list, processed_count, last_ret, exit_code, escaped>>
  /\ UNCHANGED <<input_vars, todo, cur, handled, report>>

\* The strip, inside the try.
Strip ==
  /\ pc = "strip"
  /\ \E o \in Outcomes :
       LET L == LoggerLog(logs, "INFO", "try_repair", cur.media, NoDetail) IN
       /\ calls' = Append(calls, Invocation("strip", clean_cmd(cur.media), o))
       /\ IF o.raised
          THEN /\ logs' = LoggerLog(L, "ERROR", "error_msg", NoFile, UnexpectedErrorMsg(o))
               /\ Return(FALSE, UnexpectedErrorMsg(o))
          ELSE IF CleanFailed(o.rc)
          THEN /\ logs' = LoggerLog(L, "ERROR", "error_msg", NoFile, CleanErrorMsg(o))
               /\ Return(FALSE, CleanErrorMsg(o))
          ELSE /\ logs' = L
               /\ pc' = "retry"
               /\ UNCHANGED <<failure_list, processed_count, last_ret>>
  /\ UNCHANGED <<input_vars, todo, cur, first_error, handled, report, exit_code, escaped>>

\* The second write, inside the try; its result is final.
Retry ==
  /\ pc = "retry"
  /\ \E o \in Outcomes :
       /\ calls' = Append(calls, Invocation("write", cur.cmd, o))
       /\ IF o.raised
          THEN /\ logs' = LoggerLog(logs, "ERROR", "error_msg", NoFile, UnexpectedErrorMsg(o))
               /\ Return(FALSE, UnexpectedErrorMsg(o))
          ELSE IF o.rc = 0
          THEN /\ logs' = LoggerLog(logs, "INFO", "updated_after_repair", cur.media, NoDetail)
               /\ Return(TRUE, NoError)
          ELSE /\ logs' = LoggerLog(logs, "ERROR", "error_msg", NoFile, FinalErrorMsg(o))
               /\ Return(FALSE, FinalErrorMsg(o))
  /\ UNCHANGED <<input_vars, todo, cur, first_error, handled, report, exit_code, escaped>>

\* process_directory returns its failure list; main writes the failure
\* report if there is a failure and exits 101, else exits 0.
Finish ==
  /\ pc = "walk"
  /\ todo = {}
  /\ LET L == LoggerLog(LoggerLog(logs, "INFO", "done", NoFile, <<"count", processed_count>>),
                        "INFO", "rule", NoFile, NoDetail)
     IN logs' = IF failure_list # <<>> THEN L
                 ELSE LoggerLog(L, "INFO", "all_succeeded", NoFile, NoDetail)
  /\ report' = IF failure_list # <<>> THEN generate_failure_log(failure_list) ELSE report
  /\ exit_code' = ExitStatus(failure_list)
  /\ pc' = "exited"
  /\ UNCHANGED <<input_vars, todo, walker_vars, escaped>>

Next ==
  \/ MainStart
  \/ \E f \in TreeUniverse : SkipFile(f)
  \/ \E f \in TreeUniverse : VisitUnmatched(f)
  \/ \E f \in TreeUniverse : VisitNoMetadata(f)
  \/ \E f \in TreeUniverse : VisitWrite(f)
  \/ FirstWrite
  \/ Strip
  \/ Retry
  \/ Finish

Spec == Init /\ [][Next]_vars

\* ------------------------------------------------------------------------
\* smart_file_matcher on its own
\* ------------------------------------------------------------------------

\* The most names in the directory the matcher searches.
MaxListing == 3

\* trip.mp4.x.y.json, trip.mp4.x.json, trip.weird.json, trip[.jpg.x.y.JSON,
\* .x.y.json
MatchSidecars ==
  { <<"trip", Dot, "mp4", Dot, "x", Dot, "y", Dot, "json">>,
    <<"trip", Dot, "mp4", Dot, "x", Dot, "json">>,
    <<"trip", Dot, "weird", Dot, "json">>,
    <<"trip", "[", Dot, "jpg", Dot, "x", Dot, "y", Dot, "JSON">>,
    <<Dot, "x", Dot, "y", Dot, "json">> }

\* trip.mp4, trip.mp4.bak, trip.mp4.JPG, trip_edited.jpg, trip[.jpg and the
\* two names that hold a literal "*": trip.mp4.* and trip*
MatchUniverse ==
  { <<"trip", Dot, "mp4">>,
    <<"trip", Dot, "mp4", Dot, "bak">>,
    <<"trip", Dot, "mp4", Dot, "JPG">>,
    <<"trip", "_edited", Dot, "jpg">>,
    <<"trip", "[", Dot, "jpg">>,
    <<"trip", Dot, "mp4", Dot, "*">>,
    <<"trip", "*">> }

MatchInit ==
  /\ pc = "match_call"
  /\ m_json \in MatchSidecars
  /\ m_listing \in {l \in SUBSET MatchUniverse : Cardinality(l) <= MaxListing}
  /\ m_result = None
  /\ t_doc = IdleDoc
  /\ t_result = [value |-> None, log |-> "none"]
  /\ local_tz = 0
  /\ argv_ok = FALSE
  /\ is_dir = FALSE
  /\ tree = {}
  /\ content = <<>>
  /\ todo = {}
  /\ RunFresh

run_vars ==
  <<argv_ok, is_dir, tree, content, todo, walker_vars, logs, report, exit_code, escaped>>

MatchCall ==
  /\ pc = "match_call"
  /\ m_result' \in smart_file_matcher(m_json, m_listing)
  /\ pc' = "match_done"
  /\ UNCHANGED <<m_json, m_listing, t_doc, local_tz, t_result, run_vars>>

MatchNext == MatchCall

SpecMatch == MatchInit /\ [][MatchNext]_vars

\* ------------------------------------------------------------------------
\* enhanced_parse_time on its own
\* ------------------------------------------------------------------------

Chars0 == <<"0">>
Chars951840000 == <<"9", "5", "1", "8", "4", "0", "0", "0", "0">>
CharsGarbage == <<"a", "b">>
CharsDate2020 == <<"2", "0", "2", "0", ":", "0", "1", ":", "0", "2", " ", "0", "3", ":", "0", "4", ":", "0", "5">>
CharsDateShort == <<"2", "0", "2", "0", ":", "1", ":", "2", " ", "3", ":", "4", ":", "5">>
CharsDateBadDay == <<"2", "0", "2", "1", ":", "0", "2", ":", "2", "9", " ", "0", "0", ":", "0", "0", ":", "0", "0">>
CharsDate1970 == <<"1", "9", "7", "0", ":", "0", "1", ":", "0", "1", " ", "0", "0", ":", "0", "0", ":", "0", "0">>

\* What a timestamp field holds: nothing, the numbers 0 and 1600000000, the
\* digit strings "0" and "951840000", other text, a list, a formatted date.
TimestampValues ==
  {Absent, Num(0), Num(1600000000), Str(Chars0), Str(Chars951840000),
   Str(CharsGarbage), AList, Str(CharsDate2020)}

\* What a formatted field holds: nothing, well-formed dates, a date with a
\* day its month lacks, other text, a number.
FormattedValues ==
  {Absent, Str(CharsDate2020), Str(CharsDateShort), Str(CharsDateBadDay),
   Str(CharsDate1970), Str(CharsGarbage), Num(1600000000)}

TimeObjects ==
  {EmptyTime, [k |-> "null", timestamp |-> Absent, formatted |-> Absent]}
  \cup {[k |-> "dict", timestamp |-> t, formatted |-> f] :
          t \in TimestampValues, f \in FormattedValues}

TimeDocs ==
  {[readable |-> TRUE, photoTakenTime |-> p, creationTime |-> c, geoData |-> EmptyGeo] :
     p \in TimeObjects, c \in TimeObjects}
  \cup {[readable |-> FALSE, photoTakenTime |-> EmptyTime, creationTime |-> EmptyTime,
         geoData |-> EmptyGeo]}

\* Local zones: UTC, UTC+8, UTC-5.
TzOffsets == {0, 28800, -18000}

TimeInit ==
  /\ pc = "time_call"
  /\ t_doc \in TimeDocs
  /\ local_tz \in TzOffsets
  /\ t_result = [value |-> None, log |-> "none"]
  /\ m_json = <<>>
  /\ m_listing = {}
  /\ m_result = None
  /\ argv_ok = FALSE
  /\ is_dir = FALSE
  /\ tree = {}
  /\ content = <<>>
  /\ todo = {}
  /\ RunFresh

TimeCall ==
  /\ pc = "time_call"
  /\ t_result' = enhanced_parse_time(t_doc, local_tz)
  /\ pc' = "time_done"
  /\ UNCHANGED <<m_json, m_listing, m_result, t_doc, local_tz, run_vars>>

TimeNext == TimeCall

SpecTime == TimeInit /\ [][TimeNext]_vars

\* ------------------------------------------------------------------------
\* Properties
\* ------------------------------------------------------------------------

SeqToSet(q) == {q[i] : i \in 1..Len(q)}

CountM(argv) == Cardinality({i \in 1..Len(argv) : argv[i] = Arg("-m")})

\* C1: a call of the writer invokes exiftool in this order and no other:
\* one write; a strip only after that write exited non-zero; one more write,
\* with the same arguments, only after the strip exited zero.  Every write
\* carries "-m" once, as its second argument.  A call that has returned has
\* made every step its exit statuses call for, and reports success exactly
\* if its last invocation was a write that exited zero.
C1_InvocationOrder ==
  LET n == Len(calls) IN
  /\ n <= 3
  /\ n >= 1 => calls[1].kind = "write"
  /\ n >= 2 => calls[2].kind = "strip" /\ ~calls[1].raised /\ calls[1].rc # 0
  /\ n = 3 => /\ calls[3].kind = "write"
              /\ ~calls[2].raised /\ calls[2].rc = 0
              /\ calls[3].argv = calls[1].argv
  /\ \A i \in 1..n : calls[i].kind = "write" =>
       /\ calls[i].argv[2] = Arg("-m")
       /\ CountM(calls[i].argv) = 1
  /\ pc = "strip" => n = 1
  /\ pc = "retry" => n = 2
  /\ last_ret.returned =>
       /\ n >= 1
       /\ last_ret.success <=>
            (calls[n].kind = "write" /\ ~calls[n].raised /\ calls[n].rc = 0)
       /\ \/ n = 1 /\ calls[1].rc = 0
          \/ n = 2 /\ (calls[2].raised \/ calls[2].rc # 0)
          \/ n = 3

\* C1's case: the first write fails, the strip succeeds, the second write
\* succeeds, and the call reports success after two writes and one strip.
C1_Witness ==
  /\ last_ret.returned /\ last_ret.success
  /\ Len(calls) = 3
  /\ calls[1].rc # 0 /\ calls[2].rc = 0 /\ calls[3].rc = 0

\* C2: an exception raised by any invocation of the writer's sequence is
\* caught inside robust_exiftool_exec, which returns a failure; none leaves
\* it.
C2_WriterNeverRaises ==
  (\E i \in 1..Len(calls) : calls[i].raised) =>
    (~escaped /\ last_ret.returned /\ ~last_ret.success)

\* C3: no media file is the writer's target for two sidecars of one run.
C3_MediaWrittenAtMostOnce ==
  \A i, j \in 1..Len(handled) :
    (i # j /\ handled[i].outcome = "writer" /\ handled[j].outcome = "writer")
      => handled[i].media # handled[j].media

\* The walk was completed: process_directory returned to main.
Completed == pc = "exited" /\ argv_ok /\ is_dir /\ ~escaped

ClaimedPatterns(core) ==
  << GlobEscape(core), GlobEscape(core) \o <<Dot, "*">>,
     GlobEscape(FirstSegment(core)) \o <<"*">> >>

ClaimedMatch(json_name, listing) ==
  IF ~base_pattern(json_name) THEN {None}
  ELSE FirstValid(listing, ClaimedPatterns(core_name(json_name)))

\* C5: for a sidecar named core.ext1.ext2.json the matcher returns the first
\* hit, over the patterns core, core.* and <first segment of core>*, that
\* has a whitelisted extension; None only when no pattern has one.
C5_FirstWhitelistedHit ==
  pc = "match_done" => m_result \in ClaimedMatch(m_json, m_listing)

\* The value at the i-th time source of a document; a time object that is
\* no object holds nothing.
SourceValue(doc, i) ==
  LET obj == MainObject(doc, time_sources[i][1]) IN
  IF obj.k = "dict" THEN SubValue(obj, time_sources[i][2]) ELSE Absent

\* A value that is a time: a number, a digit string, a well-formed date.
ValidTime(val) ==
  \/ val.k = "num"
  \/ val.k = "str" /\ (IsDigit(val.v) \/ StrptimeOk(val.v))

ValidSources(doc) == {i \in 1..Len(time_sources) : ValidTime(SourceValue(doc, i))}

\* C6: when any of the four time sources holds a valid value, the result is
\* the time of the first of them in priority order, whatever the others
\* hold.
C6_HighestPriorityValidWins ==
  (pc = "time_done" /\ t_doc.readable /\ ValidSources(t_doc) # {}) =>
    LET i == CHOOSE k \in ValidSources(t_doc) : \A l \in ValidSources(t_doc) : k <= l
    IN t_result.value =
         Strftime(ParseCandidate(SourceValue(t_doc, i), local_tz)[2]
                  + (BeijingOffsetHours * 3600))

\* The epoch a timestamp field holds as a number or as a digit string.
EpochOf(val) == IF val.k = "num" THEN val.v ELSE ToInt(val.v)

IsEpoch(val) == val.k = "num" \/ (val.k = "str" /\ IsDigit(val.v))

\* C7: for an epoch e in the taken-time timestamp field, 0 included, the
\* result is a time string, and the time it denotes is e + 8 * 3600.
C7_EpochPlusEightHours ==
  (/\ pc = "time_done"
   /\ t_doc.readable
   /\ t_doc.photoTakenTime.k = "dict"
   /\ IsEpoch(t_doc.photoTakenTime.timestamp)) =>
    /\ t_result.value # None
    /\ StrptimeOk(t_result.value)
    /\ Strptime(t_result.value) = EpochOf(t_doc.photoTakenTime.timestamp) + (8 * 3600)

\* C8: a failure reported after a non-zero first write carries the error of
\* the last invocation made, the strip's if the strip failed and the second
\* write's otherwise, never the first write's; and that message is the
\* reason stored with the media file in the failure list.
C8_LastStepsMessage ==
  (last_ret.returned /\ ~last_ret.success) =>
    LET n == Len(calls) IN
    /\ n >= 2
    /\ last_ret.error[2] = calls[n].stderr
    /\ (n = 2 /\ ~calls[2].raised) => last_ret.error = <<"clean_failed", calls[2].stderr>>
    /\ (n = 3 /\ ~calls[3].raised) => last_ret.error = <<"final_failed", calls[3].stderr>>
    /\ calls[n].raised => last_ret.error[1] = "unexpected_error"
    /\ last_ret.slot \in 1..Len(failure_list)
    /\ failure_list[last_ret.slot] = <<cur.media, last_ret.error>>

\* C8's case: both writes fail with different errors around a strip that
\* succeeds, and the failure returned is the second write's.
C8_Witness ==
  /\ last_ret.returned /\ ~last_ret.success
  /\ Len(calls) = 3
  /\ ~calls[3].raised
  /\ calls[1].stderr # calls[3].stderr
  /\ last_ret.error = <<"final_failed", calls[3].stderr>>

\* C9: every warning and every error emitted is in the run log.
C9_WarningsInRunLog ==
  \A i \in 1..Len(logs.emitted) :
    logs.emitted[i].level \in {"WARNING", "ERROR"}
      => logs.emitted[i] \in SeqToSet(logs.file)

\* C10: a run on a directory ends with every sidecar handled once and with
\* one outcome each: successes plus failures equal the sidecars.
C10_OneOutcomePerSidecar ==
  (pc = "exited" /\ argv_ok /\ is_dir) =>
    /\ \A f \in Sidecars(tree) :
         Cardinality({i \in 1..Len(handled) : handled[i].json = f}) = 1
    /\ processed_count + Len(failure_list) = Cardinality(Sidecars(tree))

====
